---------------------------- MODULE Spec2Model ----------------------------
(***************************************************************************)
(* A model of json-query (src/src/json_query/cli.py): the streaming JSON   *)
(* array decoder, the record source normalizer, the path walker and the    *)
(* schema builder.                                                         *)
(*                                                                         *)
(* Text is a sequence of one-character strings.  A decoded JSON value is a *)
(* pair <<tag, payload>>:                                                  *)
(*     <<"lit",   <<"null">>>>  <<"lit", <<"true">>>>  <<"lit", <<"false">>>>*)
(*     <<"int",   <<n>>>>              a Python int                        *)
(*     <<"float", lexeme>>             a Python float, kept as its lexeme  *)
(*     <<"str",   chars>>              a Python str                        *)
(*     <<"arr",   <<v1, ..., vn>>>>    a Python list                       *)
(*     <<"obj",   <<<<k1, v1>>, ...>>>> a Python dict, in insertion order  *)
(***************************************************************************)
EXTENDS Integers, Sequences, FiniteSets, TLC

(***************************************************************************)
(* Characters and text.                                                    *)
(***************************************************************************)
WS == {" ", "\t", "\n", "\r"}

Digits == {"0", "1", "2", "3", "4", "5", "6", "7", "8", "9"}

HexDigits == Digits \cup {"a", "b", "c", "d", "e", "f", "A", "B", "C", "D", "E", "F"}

Letters == {"a", "b", "c", "d", "e", "f", "g", "h", "i", "j", "k", "l", "m",
            "n", "o", "p", "q", "r", "s", "t", "u", "v", "w", "x", "y", "z",
            "A", "B", "C", "D", "E", "F", "G", "H", "I", "J", "K", "L", "M",
            "N", "O", "P", "Q", "R", "S", "T", "U", "V", "W", "X", "Y", "Z"}

\* The character a lone UTF-16 surrogate escape (\ud800..\udfff) decodes to.
\* It is the one character of the model's alphabet that UTF-8 cannot encode.
Surrogate == "<surrogate>"

\* The character any other \uXXXX escape decodes to.
OtherUnicode == "<unicode>"

DigitVal(c) ==
    CASE c = "0" -> 0 [] c = "1" -> 1 [] c = "2" -> 2 [] c = "3" -> 3
      [] c = "4" -> 4 [] c = "5" -> 5 [] c = "6" -> 6 [] c = "7" -> 7
      [] c = "8" -> 8 [] c = "9" -> 9

\* s[i:i+1] of Python: the character at 1-based index i, "" past the end.
At(s, i) == IF i >= 1 /\ i <= Len(s) THEN s[i] ELSE ""

\* s[i-1:] of Python, for a 1-based index i.
From(s, i) == SubSeq(s, i, Len(s))

StartsWith(s, p) == Len(s) >= Len(p) /\ SubSeq(s, 1, Len(p)) = p

RECURSIVE SkipSet(_, _, _)
\* The first index >= i of s whose character is not in set cs.
SkipSet(s, i, cs) == IF At(s, i) \in cs THEN SkipSet(s, i + 1, cs) ELSE i

\* str.lstrip() over the model's alphabet.
LStrip(s) == From(s, SkipSet(s, 1, WS))

RECURSIVE RStripEnd(_, _)
RStripEnd(s, n) == IF n >= 1 /\ s[n] \in WS THEN RStripEnd(s, n - 1) ELSE n

\* str.strip() over the model's alphabet.
Strip(s) == LStrip(SubSeq(s, 1, RStripEnd(s, Len(s))))

RECURSIVE FindFrom(_, _, _)
\* str.find(c) from index i: the 1-based index of the first c, 0 when absent.
FindFrom(s, c, i) ==
    IF i > Len(s) THEN 0
    ELSE IF s[i] = c THEN i
    ELSE FindFrom(s, c, i + 1)

Find(s, c) == FindFrom(s, c, 1)

RECURSIVE ToNat(_, _)
\* int() of a run of decimal digits, acc the value of the digits read so far.
ToNat(ds, acc) ==
    IF ds = <<>> THEN acc ELSE ToNat(Tail(ds), 10 * acc + DigitVal(Head(ds)))

(***************************************************************************)
(* json.JSONDecoder: scan_once, scanstring, JSONObject, JSONArray and the  *)
(* number pattern (optional minus, 0 or a run of digits not starting with *)
(* 0, optional fraction, optional exponent), as raw_decode and json.loads  *)
(* of cli.py run them.  A result is                                        *)
(* [ok, val, end]: end is the index after the value.  NaN and Infinity are *)
(* outside the model's alphabet.                                           *)
(***************************************************************************)
Fail == [ok |-> FALSE, val |-> <<>>, end |-> 0]

Ok(v, e) == [ok |-> TRUE, val |-> v, end |-> e]

\* A \uXXXX escape's character, by its four hex digits.
UnicodeChar(h) ==
    IF h[1] \in {"d", "D"} /\ h[2] \in {"8", "9", "a", "b", "c", "d", "e", "f",
                                         "A", "B", "C", "D", "E", "F"}
    THEN Surrogate
    ELSE OtherUnicode

\* The character a one-letter escape stands for.
EscapeChar(c) ==
    CASE c = "\"" -> "\""
      [] c = "\\" -> "\\"
      [] c = "/" -> "/"
      [] c = "n" -> "\n"
      [] c = "t" -> "\t"
      [] c = "r" -> "\r"
      [] c = "b" -> "<bs>"
      [] c = "f" -> "<ff>"

RECURSIVE ScanString(_, _, _)
\* py_scanstring (strict): i is the index after the opening quote, acc the
\* characters decoded so far.
ScanString(s, i, acc) ==
    LET c == At(s, i) IN
    IF c = "" THEN Fail
    ELSE IF c = "\"" THEN Ok(<<"str", acc>>, i + 1)
    ELSE IF c \in {"\n", "\t", "\r"} THEN Fail
    ELSE IF c # "\\" THEN ScanString(s, i + 1, Append(acc, c))
    ELSE LET e == At(s, i + 1) IN
         IF e = "" THEN Fail
         ELSE IF e = "u"
              THEN IF i + 5 <= Len(s) /\ \A k \in 2..5 : s[i + k] \in HexDigits
                   THEN ScanString(s, i + 6,
                                   Append(acc, UnicodeChar(SubSeq(s, i + 2, i + 5))))
                   ELSE Fail
         ELSE IF e \in {"\"", "\\", "/", "n", "t", "r", "b", "f"}
              THEN ScanString(s, i + 2, Append(acc, EscapeChar(e)))
         ELSE Fail

\* The number pattern matched at index i.
ScanNumber(s, i) ==
    LET j0 == IF At(s, i) = "-" THEN i + 1 ELSE i
    IN  IF At(s, j0) \notin Digits THEN Fail
        ELSE
        LET j1 == IF At(s, j0) = "0" THEN j0 + 1 ELSE SkipSet(s, j0, Digits)
            j2 == IF At(s, j1) = "." /\ At(s, j1 + 1) \in Digits
                  THEN SkipSet(s, j1 + 1, Digits)
                  ELSE j1
            k  == IF At(s, j2 + 1) \in {"+", "-"} THEN j2 + 2 ELSE j2 + 1
            j3 == IF At(s, j2) \in {"e", "E"} /\ At(s, k) \in Digits
                  THEN SkipSet(s, k, Digits)
                  ELSE j2
            n  == ToNat(SubSeq(s, j0, j1 - 1), 0)
        IN  IF j3 = j1
            THEN Ok(<<"int", <<IF j0 = i THEN n ELSE 0 - n>>>>, j1)
            ELSE Ok(<<"float", SubSeq(s, i, j3 - 1)>>, j3)

\* dict[k] = v on an insertion-ordered dict held as a sequence of <<k, v>>.
DictSet(d, k, v) ==
    IF \E n \in 1..Len(d) : d[n][1] = k
    THEN [n \in 1..Len(d) |-> IF d[n][1] = k THEN <<k, v>> ELSE d[n]]
    ELSE Append(d, <<k, v>>)

RECURSIVE ScanOnce(_, _)
RECURSIVE ScanArrayItems(_, _, _)
RECURSIVE ScanObjectItems(_, _, _)

\* JSONArray's loop: i is the index of the next value, acc the values so far.
ScanArrayItems(s, i, acc) ==
    LET r == ScanOnce(s, i) IN
    IF ~r.ok THEN Fail
    ELSE LET j == SkipSet(s, r.end, WS)
             c == At(s, j)
             vs == Append(acc, r.val)
         IN  IF c = "]" THEN Ok(<<"arr", vs>>, j + 1)
             ELSE IF c # "," THEN Fail
             ELSE ScanArrayItems(s, SkipSet(s, j + 1, WS), vs)

\* JSONObject's loop: i is the index of the next key's opening quote, acc the
\* pairs so far.
ScanObjectItems(s, i, acc) ==
    IF At(s, i) # "\"" THEN Fail
    ELSE
    LET key == ScanString(s, i + 1, <<>>) IN
    IF ~key.ok THEN Fail
    ELSE
    LET c1 == SkipSet(s, key.end, WS) IN
    IF At(s, c1) # ":" THEN Fail
    ELSE
    LET r == ScanOnce(s, SkipSet(s, c1 + 1, WS)) IN
    IF ~r.ok THEN Fail
    ELSE
    LET j == SkipSet(s, r.end, WS)
        c == At(s, j)
        d == DictSet(acc, key.val[2], r.val)
    IN  IF c = "}" THEN Ok(<<"obj", d>>, j + 1)
        ELSE IF c # "," THEN Fail
        ELSE ScanObjectItems(s, SkipSet(s, j + 1, WS), d)

\* scan_once(s, idx): one JSON value starting exactly at index i.
ScanOnce(s, i) ==
    LET c == At(s, i) IN
    IF c = "" THEN Fail
    ELSE IF c = "\"" THEN ScanString(s, i + 1, <<>>)
    ELSE IF c = "{"
         THEN LET j == SkipSet(s, i + 1, WS) IN
              IF At(s, j) = "}" THEN Ok(<<"obj", <<>>>>, j + 1)
              ELSE ScanObjectItems(s, j, <<>>)
    ELSE IF c = "["
         THEN LET j == SkipSet(s, i + 1, WS) IN
              IF At(s, j) = "]" THEN Ok(<<"arr", <<>>>>, j + 1)
              ELSE ScanArrayItems(s, j, <<>>)
    ELSE IF c = "n" /\ StartsWith(From(s, i), <<"n", "u", "l", "l">>)
         THEN Ok(<<"lit", <<"null">>>>, i + 4)
    ELSE IF c = "t" /\ StartsWith(From(s, i), <<"t", "r", "u", "e">>)
         THEN Ok(<<"lit", <<"true">>>>, i + 4)
    ELSE IF c = "f" /\ StartsWith(From(s, i), <<"f", "a", "l", "s", "e">>)
         THEN Ok(<<"lit", <<"false">>>>, i + 5)
    ELSE ScanNumber(s, i)

\* decoder.raw_decode(buf): the value at the very start of buf and the number
\* of characters it takes, or a JSONDecodeError.
raw_decode(buf) ==
    LET r == ScanOnce(buf, 1) IN
    IF r.ok THEN Ok(r.val, r.end - 1) ELSE Fail

\* json.loads(s) / json.load(fp): one value with only whitespace around it,
\* or a JSONDecodeError ("Expecting value", "Extra data").
loads(s) ==
    LET r == ScanOnce(s, SkipSet(s, 1, WS)) IN
    IF r.ok /\ SkipSet(s, r.end, WS) = Len(s) + 1 THEN Ok(r.val, r.end) ELSE Fail

(***************************************************************************)
(* State.                                                                  *)
(***************************************************************************)
VARIABLES
    src,           \* the text of the stream or file being read
    pos,           \* the number of characters of src already read
    chunk_size,    \* the size asked of each fp.read
    exact,         \* whether fp.read returns chunk_size characters until EOF
    buf,           \* iter_json_array_stream's working buffer
    pc,            \* where the running generator or command stands
    out,           \* the values yielded so far
    caller,        \* who consumes the values: "list" or "cmd_normalize"
    kind,          \* iter_records_from_file's sniffed kind
    n,             \* cmd_normalize's count of records written
    skipped,       \* cmd_normalize's skipped count
    sample_max,    \* generate_flat_select_sql's sample cap
    cnt,           \* the number of records passed to walk_paths
    scalar_paths,  \* the ordered set of scalar paths
    json_paths,    \* the ordered set of structured paths
    plan           \* the extraction plan: <<path, kind, column name>> entries

schemaVars == <<sample_max, cnt, scalar_paths, json_paths, plan>>

vars == <<src, pos, chunk_size, exact, buf, pc, out, caller, kind, n, skipped,
          sample_max, cnt, scalar_paths, json_paths, plan>>

(***************************************************************************)
(* The corpus of the decoder: JSON arrays of up to MaxElems elements drawn *)
(* from ElemTexts, compact or pretty-printed.                              *)
(***************************************************************************)
MaxElems == 2

MaxChunk == 3

ElemTexts ==
    { <<"1", "2">>,
      <<"1", ".", "5">>,
      <<"-", "3", "e", "4">>,
      <<"t", "r", "u", "e">>,
      <<"\"", "]", "\"">>,
      <<"\"", "\\", "\"", ",", "\"">>,
      <<"[", "1", "]">>,
      <<"{", "\"", "a", "\"", ":", "2", "}">> }

RECURSIVE JoinElems(_, _)
\* The elements of es, each preceded by gap and separated by commas.
JoinElems(es, gap) ==
    IF es = <<>> THEN <<>>
    ELSE gap \o Head(es) \o (IF Len(es) > 1 THEN <<",">> ELSE <<>>)
             \o JoinElems(Tail(es), gap)

\* The serialized array of the element texts es: compact ("[1,2]") or
\* pretty-printed (" [ 1, 2 ]").
ArrayText(es, pretty) ==
    IF pretty
    THEN <<" ", "[">> \o JoinElems(es, <<" ">>) \o <<" ", "]">>
    ELSE <<"[">> \o JoinElems(es, <<>>) \o <<"]">>

ElemSeqs == UNION {[1..k -> ElemTexts] : k \in 0..MaxElems}

Docs == {ArrayText(es, pretty) : es \in ElemSeqs, pretty \in BOOLEAN}

Prefixes(d) == {SubSeq(d, 1, k) : k \in 0..Len(d)}

Min(a, b) == IF a <= b THEN a ELSE b

(***************************************************************************)
(* fp.read(chunk_size): the sizes the next read may return.  0 is the      *)
(* empty string of EOF.                                                    *)
(***************************************************************************)
ReadSizes ==
    IF pos >= Len(src) THEN {0}
    ELSE IF exact THEN {Min(chunk_size, Len(src) - pos)}
    ELSE 1..Min(chunk_size, Len(src) - pos)

Chunk(k) == SubSeq(src, pos + 1, pos + k)

\* Whether the value can be written to the UTF-8 output: a str holding a lone
\* surrogate cannot (UnicodeEncodeError).
RECURSIVE Encodable(_)
Encodable(v) ==
    CASE v[1] = "str" -> Surrogate \notin {v[2][k] : k \in 1..Len(v[2])}
      [] v[1] = "arr" -> \A k \in 1..Len(v[2]) : Encodable(v[2][k])
      [] v[1] = "obj" -> \A k \in 1..Len(v[2]) :
                            /\ Encodable(<<"str", v[2][k][1]>>)
                            /\ Encodable(v[2][k][2])
      [] OTHER -> TRUE

\* The body of cmd_normalize's loop for one record: write it and count it, or
\* count it as skipped when writing raises.
Consume(rec) ==
    IF caller = "cmd_normalize"
    THEN IF Encodable(rec)
         THEN n' = n + 1 /\ skipped' = skipped
         ELSE n' = n /\ skipped' = skipped + 1
    ELSE UNCHANGED <<n, skipped>>

\* yield obj: the consumer's loop body runs before the generator resumes.
Yield(obj) == out' = Append(out, obj) /\ Consume(obj)

(***************************************************************************)
(* iter_json_array_stream.                                                 *)
(***************************************************************************)
\* The first loop: read until the first "[" and drop everything up to it.
SeekOpen ==
    /\ pc = "seek"
    /\ \E k \in ReadSizes :
          IF k = 0
          THEN /\ pc' = "error"
               /\ UNCHANGED <<pos, buf>>
          ELSE LET b == buf \o Chunk(k)
                   stripped == LStrip(b)
                   idx == Find(stripped, "[")
               IN  /\ pos' = pos + k
                   /\ IF stripped = <<>>
                      THEN buf' = <<>> /\ pc' = "seek"
                      ELSE IF idx # 0
                      THEN buf' = From(stripped, idx + 1) /\ pc' = "skip"
                      ELSE buf' = b /\ pc' = "seek"
    /\ UNCHANGED <<src, chunk_size, exact, out, caller, kind, n, skipped>>
    /\ UNCHANGED schemaVars

\* A decoder that takes EOF between elements for the end of the array.
SkipEOFReturns == "done"

\* raise ValueError("Unexpected EOF inside JSON array"): where the generator
\* stands after fp.read returns "" while it skips separators.
SkipEOF == "error"

\* The number of leading characters of b that are whitespace or commas.
SkipCount(b) == SkipSet(b, 1, {" ", "\t", "\r", "\n", ","}) - 1

\* Skip whitespace and commas, reading more when the buffer runs out; then
\* end at "]" or go on to decode a value.  The skip loop leaves at a character
\* that is no separator, so buf[i:] is not empty and the "while not buf" loop
\* that follows it reads nothing.
SkipSeparators ==
    /\ pc = "skip"
    /\ LET i == SkipCount(buf) IN
       IF i >= Len(buf)
       THEN \E k \in ReadSizes :
               IF k = 0
               THEN pc' = SkipEOF /\ UNCHANGED <<pos, buf>>
               ELSE pc' = "skip" /\ pos' = pos + k /\ buf' = buf \o Chunk(k)
       ELSE LET b == LStrip(From(buf, i + 1)) IN
            /\ buf' = b
            /\ pos' = pos
            /\ pc' = IF StartsWith(b, <<"]">>) THEN "done" ELSE "decode"
    /\ UNCHANGED <<src, chunk_size, exact, out, caller, kind, n, skipped>>
    /\ UNCHANGED schemaVars

\* Decode one value from the start of the buffer and yield it, or read more
\* when raw_decode raises; at EOF the JSONDecodeError is re-raised.
DecodeValue ==
    /\ pc = "decode"
    /\ LET r == raw_decode(buf) IN
       IF r.ok
       THEN /\ Yield(r.val)
            /\ buf' = From(buf, r.end + 1)
            /\ pc' = "skip"
            /\ pos' = pos
       ELSE /\ \E k \in ReadSizes :
                  IF k = 0
                  THEN pc' = "error" /\ UNCHANGED <<pos, buf>>
                  ELSE pc' = "decode" /\ pos' = pos + k /\ buf' = buf \o Chunk(k)
            /\ UNCHANGED <<out, n, skipped>>
    /\ UNCHANGED <<src, chunk_size, exact, caller, kind>>
    /\ UNCHANGED schemaVars

\* The schema builder's variables where no schema is built.
NoSchema ==
    /\ sample_max = 0
    /\ cnt = 0
    /\ scalar_paths = <<>>
    /\ json_paths = <<>>
    /\ plan = <<>>

\* list(iter_json_array_stream(fp)) over a well-formed array read in chunks.
InitDecoder ==
    /\ src \in Docs
    /\ chunk_size \in 1..MaxChunk
    /\ exact \in BOOLEAN
    /\ exact = FALSE => chunk_size = MaxChunk
    /\ pos = 0
    /\ buf = <<>>
    /\ pc = "seek"
    /\ out = <<>>
    /\ caller = "list"
    /\ kind = "array"
    /\ n = 0
    /\ skipped = 0
    /\ NoSchema

\* The same over a stream that ends early.
InitTruncated ==
    /\ src \in UNION {Prefixes(d) \ {d} : d \in Docs}
    /\ chunk_size = MaxChunk
    /\ exact = FALSE
    /\ pos = 0
    /\ buf = <<>>
    /\ pc = "seek"
    /\ out = <<>>
    /\ caller = "list"
    /\ kind = "array"
    /\ n = 0
    /\ skipped = 0
    /\ NoSchema

(***************************************************************************)
(* sniff_json_kind and iter_records_from_file, consumed by cmd_normalize.  *)
(***************************************************************************)
HeadBytes == 4096

GuessChars == 200

ChunkSize == 1048576

sniff_json_kind(file) ==
    LET text == LStrip(SubSeq(file, 1, Min(Len(file), HeadBytes))) IN
    IF text = <<>> THEN "unknown"
    ELSE IF text[1] = "[" THEN "array"
    ELSE IF text[1] = "{" THEN "object"
    ELSE IF Find(SubSeq(text, 1, Min(Len(text), GuessChars)), "{") # 0 THEN "ndjson"
    ELSE "unknown"

\* iter_records_from_file(path) up to the choice of a reader.
OpenFile ==
    /\ pc = "open"
    /\ kind' = sniff_json_kind(src)
    /\ pc' = CASE kind' = "array" -> "seek"
               [] kind' = "object" -> "object"
               [] OTHER -> "lines"
    /\ UNCHANGED <<src, pos, chunk_size, exact, buf, out, caller, n, skipped>>
    /\ UNCHANGED schemaVars

\* kind "object": yield json.load(fp), the whole file as one value; a
\* JSONDecodeError propagates to the caller.
LoadObject ==
    /\ pc = "object"
    /\ LET r == loads(src) IN
       IF r.ok
       THEN Yield(r.val) /\ pc' = "done"
       ELSE pc' = "error" /\ UNCHANGED <<out, n, skipped>>
    /\ pos' = Len(src)
    /\ UNCHANGED <<src, chunk_size, exact, buf, caller, kind>>
    /\ UNCHANGED schemaVars

\* The index of the last character of the line that starts after index p.
LineEnd(file, p) ==
    LET e == FindFrom(file, "\n", p + 1) IN IF e = 0 THEN Len(file) ELSE e

\* One iteration of "for line in fp": blank and malformed lines are passed
\* over, a parsed line is yielded; the generator returns at EOF.
ReadLine ==
    /\ pc = "lines"
    /\ IF pos >= Len(src)
       THEN pc' = "done" /\ UNCHANGED <<pos, out, n, skipped>>
       ELSE LET e == LineEnd(src, pos)
                s == Strip(SubSeq(src, pos + 1, e))
                r == loads(s)
            IN  /\ pos' = e
                /\ pc' = "lines"
                /\ IF s # <<>> /\ r.ok
                   THEN Yield(r.val)
                   ELSE UNCHANGED <<out, n, skipped>>
    /\ UNCHANGED <<src, chunk_size, exact, buf, caller, kind>>
    /\ UNCHANGED schemaVars

\* cmd_normalize after its loop: print "OK normalize: n records (skipped=..)".
Report ==
    /\ pc = "done"
    /\ caller = "cmd_normalize"
    /\ pc' = "reported"
    /\ UNCHANGED <<src, pos, chunk_size, exact, buf, out, caller, kind, n, skipped>>
    /\ UNCHANGED schemaVars

(***************************************************************************)
(* The corpus of the normalizer: files of up to MaxLines lines drawn from  *)
(* LineTexts, the last line with or without its newline.                   *)
(***************************************************************************)
MaxLines == 3

LineTexts ==
    { <<"{", "\"", "a", "\"", ":", "2", "}">>,
      <<"{", "\"", "b", "\"", ":", "\"", "\\", "u", "d", "8", "0", "0", "\"", "}">>,
      <<"x", "{">>,
      <<"1", "2">>,
      <<"[", "1", "]">>,
      <<" ">> }

RECURSIVE JoinLines(_)
JoinLines(ls) ==
    IF ls = <<>> THEN <<>> ELSE Head(ls) \o <<"\n">> \o JoinLines(Tail(ls))

LineSeqs == UNION {[1..k -> LineTexts] : k \in 0..MaxLines}

Files ==
    {JoinLines(ls) : ls \in LineSeqs}
        \cup {SubSeq(JoinLines(ls), 1, Len(JoinLines(ls)) - 1) : ls \in LineSeqs \ {<<>>}}

\* cmd_normalize over one input file.
InitNormalize ==
    /\ src \in Files
    /\ chunk_size = ChunkSize
    /\ exact = TRUE
    /\ pos = 0
    /\ buf = <<>>
    /\ pc = "open"
    /\ out = <<>>
    /\ caller = "cmd_normalize"
    /\ kind = "unknown"
    /\ n = 0
    /\ skipped = 0
    /\ NoSchema

NextNormalize ==
    OpenFile \/ SeekOpen \/ SkipSeparators \/ DecodeValue \/ LoadObject \/ ReadLine \/ Report

SpecNormalize == InitNormalize /\ [][NextNormalize]_vars

(***************************************************************************)
(* Schema generation: is_scalar, _jsonpath_key_segment, walk_paths,        *)
(* colname and generate_flat_select_sql.  A path is the text the code      *)
(* builds ("$.a.b"); an OrderedDict used as an ordered set is a sequence   *)
(* without duplicates.                                                     *)
(***************************************************************************)
is_scalar(v) == v[1] \in {"lit", "int", "float", "str"}

\* str.isidentifier() over the model's alphabet.
isidentifier(k) ==
    /\ k # <<>>
    /\ k[1] \in Letters \cup {"_"}
    /\ \A j \in 1..Len(k) : k[j] \in Letters \cup Digits \cup {"_"}

RECURSIVE Replace(_, _, _)
\* str.replace(old, new): every non-overlapping occurrence, left to right.
Replace(s, old, new) ==
    IF s = <<>> THEN <<>>
    ELSE IF StartsWith(s, old) THEN new \o Replace(From(s, Len(old) + 1), old, new)
    ELSE <<Head(s)>> \o Replace(Tail(s), old, new)

_jsonpath_key_segment(k) ==
    IF isidentifier(k) THEN <<".">> \o k
    ELSE LET esc == Replace(Replace(k, <<"\\">>, <<"\\", "\\">>),
                            <<"\"">>, <<"\\", "\"">>)
         IN  <<".", "\"">> \o esc \o <<"\"">>

\* d[p] = True on an OrderedDict used as an ordered set.
OdSet(d, p) == IF \E j \in 1..Len(d) : d[j] = p THEN d ELSE Append(d, p)

DigitChar(d) ==
    CASE d = 0 -> "0" [] d = 1 -> "1" [] d = 2 -> "2" [] d = 3 -> "3"
      [] d = 4 -> "4" [] d = 5 -> "5" [] d = 6 -> "6" [] d = 7 -> "7"
      [] d = 8 -> "8" [] OTHER -> "9"

RECURSIVE ExplodeFrom(_, _, _, _, _)
\* Element k and the following ones of list obj, each recorded under an index.
ExplodeFrom(obj, path, sp, jp, k) ==
    IF k > Len(obj[2]) THEN <<sp, jp>>
    ELSE LET p == path \o <<"[", DigitChar(k - 1), "]">> IN
         IF is_scalar(obj[2][k])
         THEN ExplodeFrom(obj, path, OdSet(sp, p), jp, k + 1)
         ELSE ExplodeFrom(obj, path, sp, OdSet(jp, p), k + 1)

\* A walker that explodes an array into its elements.
walk_list_exploded(obj, path, sp, jp) ==
    ExplodeFrom(obj, path, sp, OdSet(jp, path), 1)

\* The list branch of walk_paths: the array is kept whole.
walk_list(obj, path, sp, jp) == <<sp, OdSet(jp, path)>>

RECURSIVE walk_paths(_, _, _, _)
RECURSIVE walk_items(_, _, _, _)

\* walk_paths' loop over the items of a dict, in the dict's order.
walk_items(items, path, sp, jp) ==
    IF items = <<>> THEN <<sp, jp>>
    ELSE LET v == Head(items)[2]
             p == path \o _jsonpath_key_segment(Head(items)[1])
         IN  IF is_scalar(v)
             THEN walk_items(Tail(items), path, OdSet(sp, p), jp)
             ELSE LET w == walk_paths(v, p, sp, OdSet(jp, p))
                  IN  walk_items(Tail(items), path, w[1], w[2])

\* walk_paths(obj, path, scalar_paths, json_paths): the two ordered sets after
\* the walk, as <<scalar_paths, json_paths>>.
walk_paths(obj, path, sp, jp) ==
    IF is_scalar(obj) THEN <<OdSet(sp, path), jp>>
    ELSE IF obj[1] = "obj" THEN walk_items(obj[2], path, sp, jp)
    ELSE walk_list(obj, path, sp, jp)

Safe == Letters \cup Digits \cup {"_"}

RECURSIVE SubUnsafe(_)
\* re.sub(r"[^A-Za-z0-9_]+", "_", p): each run of other characters becomes "_".
SubUnsafe(p) ==
    IF p = <<>> THEN <<>>
    ELSE IF Head(p) \in Safe THEN <<Head(p)>> \o SubUnsafe(Tail(p))
    ELSE <<"_">> \o SubUnsafe(From(p, SkipSet(p, 1, {p[j] : j \in 1..Len(p)} \ Safe)))

\* A single underscore as the delimiter.
DelimSingle == <<"_">>

\* The delimiter a "." of the path becomes in the column name.
Delim == <<"_", "_">>

colname(path) ==
    LET p0 == IF StartsWith(path, <<"$", ".">>)
              THEN From(path, 3)
              ELSE Replace(path, <<"$">>, <<"r", "o", "o", "t">>)
        p1 == Replace(Replace(p0, <<"[", "\"">>, <<".">>), <<"\"", "]">>, <<>>)
        p2 == Replace(Replace(p1, <<"[">>, <<"_">>), <<"]">>, <<>>)
        p3 == Replace(p2, <<".">>, Delim)
        p4 == SubUnsafe(p3)
    IN  IF p4 = <<>> THEN <<"r", "o", "o", "t">> ELSE p4

\* One iteration of generate_flat_select_sql's loop over the lines of the
\* NDJSON file: blank and malformed lines are passed over; a parsed record is
\* walked and counted, and the loop breaks once cnt >= sample_max.
SampleLine ==
    /\ pc = "sampling"
    /\ IF pos >= Len(src)
       THEN pc' = "sampled" /\ UNCHANGED <<pos, cnt, scalar_paths, json_paths>>
       ELSE LET e == LineEnd(src, pos)
                s == Strip(SubSeq(src, pos + 1, e))
                r == loads(s)
            IN  /\ pos' = e
                /\ IF s # <<>> /\ r.ok
                   THEN LET w == walk_paths(r.val, <<"$">>, scalar_paths, json_paths)
                        IN  /\ scalar_paths' = w[1]
                            /\ json_paths' = w[2]
                            /\ cnt' = cnt + 1
                            /\ pc' = IF cnt + 1 >= sample_max THEN "sampled"
                                     ELSE "sampling"
                   ELSE pc' = "sampling" /\ UNCHANGED <<cnt, scalar_paths, json_paths>>
    /\ UNCHANGED <<src, chunk_size, exact, buf, out, caller, kind, n, skipped,
                   sample_max, plan>>

\* The SELECT list after "raw_json": the scalar paths, then the json paths.
BuildPlan ==
    /\ pc = "sampled"
    /\ plan' = [j \in 1..Len(scalar_paths) |->
                   <<scalar_paths[j], "scalar", colname(scalar_paths[j])>>]
               \o [j \in 1..Len(json_paths) |->
                   <<json_paths[j], "json",
                     colname(json_paths[j]) \o <<"_", "_", "j", "s", "o", "n">>>>]
    /\ pc' = "built"
    /\ UNCHANGED <<src, pos, chunk_size, exact, buf, out, caller, kind, n, skipped,
                   sample_max, cnt, scalar_paths, json_paths>>

(***************************************************************************)
(* The corpus of the schema builder: NDJSON files of up to MaxRecords      *)
(* lines drawn from RecordTexts, sampled with a cap of 0..MaxSample.       *)
(***************************************************************************)
MaxRecords == 2

MaxSample == 2

\* {"a": 1, "b": {"c": "x"}, "d": [1,2,3]}
RecordABD ==
    <<"{", "\"", "a", "\"", ":", " ", "1", ",", " ",
      "\"", "b", "\"", ":", " ", "{", "\"", "c", "\"", ":", " ", "\"", "x", "\"", "}", ",", " ",
      "\"", "d", "\"", ":", " ", "[", "1", ",", "2", ",", "3", "]", "}">>

RecordTexts ==
    { RecordABD,
      \* {"a":{"b":1},"a__b":2}
      <<"{", "\"", "a", "\"", ":", "{", "\"", "b", "\"", ":", "1", "}", ",",
        "\"", "a", "_", "_", "b", "\"", ":", "2", "}">>,
      \* {"d":[{"e":1}]}
      <<"{", "\"", "d", "\"", ":", "[", "{", "\"", "e", "\"", ":", "1", "}", "]", "}">>,
      \* {"a-b":[]}
      <<"{", "\"", "a", "-", "b", "\"", ":", "[", "]", "}">>,
      \* [[1]]
      <<"[", "[", "1", "]", "]">>,
      \* 3
      <<"3">>,
      \* a malformed line
      <<"x">>,
      \* a blank line
      <<" ">> }

RecordSeqs == UNION {[1..k -> RecordTexts] : k \in 0..MaxRecords}

InitSchema ==
    /\ src \in {JoinLines(ls) : ls \in RecordSeqs}
    /\ sample_max \in 0..MaxSample
    /\ chunk_size = ChunkSize
    /\ exact = TRUE
    /\ pos = 0
    /\ buf = <<>>
    /\ pc = "sampling"
    /\ out = <<>>
    /\ caller = "generate_flat_select_sql"
    /\ kind = "ndjson"
    /\ n = 0
    /\ skipped = 0
    /\ cnt = 0
    /\ scalar_paths = <<>>
    /\ json_paths = <<>>
    /\ plan = <<>>

NextSchema == SampleLine \/ BuildPlan

SpecSchema == InitSchema /\ [][NextSchema]_vars

NextDecoder == SeekOpen \/ SkipSeparators \/ DecodeValue

SpecDecoder == InitDecoder /\ [][NextDecoder]_vars

SpecTruncated == InitTruncated /\ [][NextDecoder]_vars
(***************************************************************************)
(* Helpers of the properties.                                              *)
(***************************************************************************)
\* The values of a single-shot parse of the array text s.
SingleShot(s) == loads(s).val[2]

RECURSIVE ElemLensFrom(_, _)
\* The serialized lengths of the elements of array text s from index i on.
ElemLensFrom(s, i) ==
    LET j == SkipSet(s, i, WS \cup {","}) IN
    IF At(s, j) \in {"]", ""} THEN {}
    ELSE LET r == ScanOnce(s, j) IN {r.end - j} \cup ElemLensFrom(s, r.end)

\* K: the largest serialized length of an element of the array text s.
MaxElemLen(s) ==
    LET lens == ElemLensFrom(s, Find(s, "[") + 1) IN
    IF lens = {} THEN 0 ELSE CHOOSE k \in lens : \A m \in lens : m <= k

RECURSIVE SplitLines(_)
\* The lines of a file, without their newlines.
SplitLines(file) ==
    IF file = <<>> THEN <<>>
    ELSE LET e == Find(file, "\n") IN
         IF e = 0 THEN <<file>>
         ELSE <<SubSeq(file, 1, e - 1)>> \o SplitLines(From(file, e + 1))

\* The non-blank lines of a file, stripped.
NonBlank(file) == SelectSeq([j \in 1..Len(SplitLines(file)) |-> Strip(SplitLines(file)[j])],
                            LAMBDA l : l # <<>>)

IsGoodLine(l) == loads(l).ok

IsBadLine(l) == ~loads(l).ok

IsObjectLine(l) == loads(l).ok /\ loads(l).val[1] = "obj"

\* The records of an NDJSON file: the values of its parseable non-blank lines.
Records(file) ==
    LET good == SelectSeq(NonBlank(file), IsGoodLine)
    IN  [j \in 1..Len(good) |-> loads(good[j]).val]

Range(f) == {f[j] : j \in 1..Len(f)}

RECURSIVE ArrayPaths(_, _)
\* The paths of the arrays of value v at path: at v itself, or below it through
\* object keys only.
ArrayPaths(v, path) ==
    IF v[1] = "arr" THEN {path}
    ELSE IF v[1] = "obj"
    THEN UNION {ArrayPaths(v[2][j][2], path \o _jsonpath_key_segment(v[2][j][1])) :
                   j \in 1..Len(v[2])}
    ELSE {}

\* Path q lies strictly below path P.
Below(P, q) ==
    /\ Len(q) > Len(P)
    /\ StartsWith(q, P)
    /\ q[Len(P) + 1] \in {".", "["}

\* Path q denotes an element of the array at path P, or something below one:
\* an index accessor (P[0], P[*], P.0, P.*) follows P.
IsElementPath(P, q) ==
    /\ Below(P, q)
    /\ \/ q[Len(P) + 1] = "["
       \/ At(q, Len(P) + 2) \in Digits \cup {"*"}

\* The records the schema builder has walked so far.
Sampled == SubSeq(Records(src), 1, cnt)

(***************************************************************************)
(* The streaming array decoder (SpecDecoder, SpecTruncated).               *)
(***************************************************************************)
\* C1: for every well-formed array and every split of its text into reads of
\* size >= 1, the decoder ends normally having yielded exactly the values of
\* a single-shot parse, in order.
C1_ChunkSizeInvariance ==
    /\ pc # "error"
    /\ pc = "done" => out = SingleShot(src)

\* C9: while a well-formed array whose elements have serialized length <= K is
\* read in chunks of fixed size C, the working buffer never holds more than
\* K + C characters plus the two separator characters between two elements.
C9_BoundedBuffer ==
    exact => Len(buf) <= MaxElemLen(src) + chunk_size + 2

\* How far the generator has come: characters read, then characters dropped
\* from the buffer, then the phase.
Rank(p) == CASE p = "seek" -> 0 [] p = "skip" -> 1 [] p = "decode" -> 2 [] OTHER -> 3

Measure(p, q, b) == 4 * (Len(src) + 2) * q + 4 * (Len(src) + 1 - Len(b)) + Rank(p)

\* C10: a stream that ends before "[" or before the closing "]" never ends in
\* a normal end-of-sequence, under any chunking: the generator is running or
\* has raised; while it runs fp.read always answers and every step brings it
\* strictly forward, so it ends, and it ends by raising; nothing is yielded
\* after that.
C10_TruncationRaises ==
    /\ [](pc \in {"seek", "skip", "decode", "error"})
    /\ [](ReadSizes # {})
    /\ [][Measure(pc', pos', buf') > Measure(pc, pos, buf)]_vars
    /\ [][pc # "error"]_vars

\* C10's case: the stream ended in the middle of a value, after a yield.
C10_Witness == pc = "error" /\ out # <<>> /\ buf # <<>> /\ pos = Len(src)

(***************************************************************************)
(* The record source normalizer (SpecNormalize).                           *)
(***************************************************************************)
\* C2: a file whose N >= 1 non-blank lines are each a JSON object is read to
\* the end without an error and yields exactly those N objects in line order.
C2_NdjsonObjects ==
    (/\ NonBlank(src) # <<>>
     /\ \A l \in Range(NonBlank(src)) : IsObjectLine(l)
     /\ pc \in {"done", "error", "reported"})
        => pc # "error" /\ out = Records(src)

\* C3: for an ndjson source with L non-blank lines of which B are malformed,
\* normalization writes L - B records and reports B as skipped.
C3_MalformedLineTolerance ==
    (pc = "reported" /\ kind \in {"ndjson", "unknown"})
        => /\ n = Len(NonBlank(src)) - Len(SelectSeq(NonBlank(src), IsBadLine))
           /\ skipped = Len(SelectSeq(NonBlank(src), IsBadLine))

(***************************************************************************)
(* The path walker and the schema builder (SpecSchema).                    *)
(***************************************************************************)
\* C4: for a stream of M records and a cap S < M, S = 0 included, exactly S
\* records have been passed to the walker when the plan is final.
C4_SamplingCap ==
    (pc = "built" /\ sample_max < Len(Records(src))) => cnt = sample_max

\* C5: no two entries of the plan carry the same column name.
C5_UniqueColumnNames ==
    \A i, j \in 1..Len(plan) : i # j => plan[i][3] # plan[j][3]

\* C6: the scalar path set and the structured path set are disjoint.
C6_ExclusiveClassification ==
    Range(scalar_paths) \cap Range(json_paths) = {}

\* The file holding the record {"a": 1, "b": {"c": "x"}, "d": [1,2,3]} alone.
ScenarioFile == RecordABD \o <<"\n">>

\* C7 as stated: the record sampled alone gives scalar paths $.a, $.b.c, the
\* one structured path $.d, and a plan of exactly three entries.
C7_ScenarioAsStated ==
    (src = ScenarioFile /\ pc = "built")
        => /\ scalar_paths = << <<"$", ".", "a">>, <<"$", ".", "b", ".", "c">> >>
           /\ json_paths = << <<"$", ".", "d">> >>
           /\ plan = << << <<"$", ".", "a">>, "scalar", <<"a">> >>,
                        << <<"$", ".", "b", ".", "c">>, "scalar", <<"b", "_", "_", "c">> >>,
                        << <<"$", ".", "d">>, "json", <<"d", "_", "_", "j", "s", "o", "n">> >> >>

\* C7 amended: the object at $.b is a structured path too, discovered before
\* $.d, and has its own plan entry ("$.b", json, "b__json").
C7_Scenario ==
    (src = ScenarioFile /\ pc = "built")
        => /\ scalar_paths = << <<"$", ".", "a">>, <<"$", ".", "b", ".", "c">> >>
           /\ json_paths = << <<"$", ".", "b">>, <<"$", ".", "d">> >>
           /\ plan = << << <<"$", ".", "a">>, "scalar", <<"a">> >>,
                        << <<"$", ".", "b", ".", "c">>, "scalar", <<"b", "_", "_", "c">> >>,
                        << <<"$", ".", "b">>, "json", <<"b", "_", "_", "j", "s", "o", "n">> >>,
                        << <<"$", ".", "d">>, "json", <<"d", "_", "_", "j", "s", "o", "n">> >> >>

\* C7's case: the scenario's record has been sampled alone and the plan built.
C7_Witness == src = ScenarioFile /\ pc = "built" /\ Len(plan) = 4

\* C8: every array of every walked record, at path P, has P in the structured
\* set, and no path of either set denotes an element of P or something below
\* one; after a single record, no path of either set lies below P at all.
C8_ArrayOpacity ==
    \A k \in 1..Len(Sampled) :
        \A P \in ArrayPaths(Sampled[k], <<"$">>) :
            /\ P \in Range(json_paths)
            /\ \A q \in Range(scalar_paths) \cup Range(json_paths) :
                  /\ ~IsElementPath(P, q)
                  /\ cnt = 1 => ~Below(P, q)

\* C8's case: a record with an array of objects below a key has been walked.
C8_Witness ==
    /\ cnt = 1
    /\ <<"$", ".", "d">> \in ArrayPaths(Sampled[1], <<"$">>)
    /\ Sampled[1][2][1][2][2] # <<>>
    /\ Sampled[1][2][1][2][2][1][1] = "obj"
=============================================================================
